---- MODULE Spec2Model ----
(***************************************************************************)
(* Model of shell.py: an interactive terminal for an OBD-II adapter over   *)
(* Bluetooth Low Energy.                                                   *)
(*                                                                         *)
(*   - MultiFrameBuffer: the reassembly buffer fed by notifications        *)
(*   - write_with_response / write_in_chunks: the chunked command writer   *)
(*   - PRINT_QUEUE, enqueue_output, output_handler: the serialized output  *)
(*   - notification_handler, initialize_device, interactive_shell,         *)
(*     connect_and_enable_notifications, main: the session                 *)
(*                                                                         *)
(* Bytes are integers 0..255, a bytes object is a sequence of them; a str  *)
(* is a sequence of code points.  An optional value is None (<<>>) or      *)
(* Some(x) (<<x>>).                                                        *)
(***************************************************************************)
EXTENDS Integers, Sequences, FiniteSets, TLC

VARIABLES
    multi_frame_buffer, \* the global MultiFrameBuffer object (its three fields)
    lastOp,             \* buffer API: name of the last method called
    ret,                \* buffer API: value the last method returned
    frames,             \* buffer API: payloads appended since the last extract() or reset()
    PRINT_QUEUE,        \* the global asyncio.Queue: items not yet taken, oldest first
    out_pc,             \* output_handler task: "running" or "stopped"
    pc,                 \* main task: where it is in main / connect_and_enable_notifications /
                        \* initialize_device / interactive_shell
    wpc,                \* the write_in_chunks frame: "idle" (not called or returned),
                        \* "loop", "await_write", "sleep"
    devices,            \* connect_and_enable_notifications: result of discover()
    devIdx,             \* connect_and_enable_notifications: position of the device loop
    connected,          \* the BleakClient context is entered and not yet left
    subscribed,         \* start_notify has succeeded and stop_notify / disconnect has not
    mtu_size,           \* client.mtu_size
    cmdIdx,             \* initialize_device: position in commands
    command,            \* the command being sent (a str)
    data,               \* write_in_chunks: the bytes to write
    i,                  \* write_in_chunks: the loop variable
    inflight,           \* the chunk handed to write_gatt_char and not yet answered
    enqueued,           \* history: messages enqueued and not yet printed, in enqueue order
    printedInOrder,     \* history: every message printed so far was the oldest one
                        \* enqueued and not yet printed
    chunks,             \* history: chunks handed to write_gatt_char by the latest call of
                        \* write_in_chunks, until its caller goes on
    prevOutcome,        \* history: outcome of the latest answered write of that call
    cmdFailed,          \* history: a write of that call has raised
    openCmds,           \* history: payloads whose write_in_chunks was called and has not returned
    lastNotif,          \* history: payload of the latest notification delivered
    lastOut,            \* history: what notification_handler enqueued for it
    ending              \* history: what made the session end: "none" (it has not),
                        \* "not_found", "connection_error", "exit"

bufVars == <<multi_frame_buffer, lastOp, ret, frames>>

outVars == <<PRINT_QUEUE, out_pc, enqueued, printedInOrder>>

scanVars == <<devices, devIdx>>

linkVars == <<connected, subscribed, mtu_size>>

writerVars == <<wpc, data, i, inflight, chunks, prevOutcome, cmdFailed, openCmds>>

notifVars == <<lastNotif, lastOut>>

sessVars == <<PRINT_QUEUE, out_pc, pc, wpc, devices, devIdx, connected, subscribed,
              mtu_size, cmdIdx, command, data, i, inflight, enqueued, printedInOrder,
              chunks, prevOutcome, cmdFailed, openCmds, lastNotif, lastOut, ending>>

vars == <<multi_frame_buffer, lastOp, ret, frames, PRINT_QUEUE, out_pc, pc, wpc,
          devices, devIdx, connected, subscribed, mtu_size, cmdIdx, command, data, i,
          inflight, enqueued, printedInOrder, chunks, prevOutcome, cmdFailed, openCmds,
          lastNotif, lastOut, ending>>

----------------------------------------------------------------------------
(* Bounds of the model *)

\* longest notification payload (bytes)
MaxFrameLen == 2
\* most appends between two returns of the buffer to idle (buffer API runs)
MaxFrames == 3
\* largest chunk capacity (mtu_size - 3) a connection negotiates
MaxCapacity == 4
\* most messages waiting in PRINT_QUEUE (how far output_handler may lag)
MaxBacklog == 2

----------------------------------------------------------------------------
(* Values *)

None == <<>>
Some(x) == <<x>>

\* byte values appended in the buffer API runs: 'A', and 0xFF, which occurs
\* in no UTF-8 encoding
NotifyBytes == {65, 255}

RECURSIVE SeqsUpTo(_, _)
SeqsUpTo(S, n) ==
    IF n = 0 THEN {<<>>}
    ELSE LET shorter == SeqsUpTo(S, n - 1)
         IN  shorter \cup {Append(s, x) : s \in {t \in shorter : Len(t) = n - 1}, x \in S}

Payloads == SeqsUpTo(NotifyBytes, MaxFrameLen)

\* data[:n] for 0 <= n
Take(s, n) == SubSeq(s, 1, IF n < Len(s) THEN n ELSE Len(s))

----------------------------------------------------------------------------
(* MultiFrameBuffer *)

\* __init__ (and the state reset() restores)
MultiFrameBufferInit ==
    [buffer |-> <<>>, expected_length |-> None, current_length |-> 0]

\* mutant of append: the empty-frame check is missing
append_no_empty_check(b, frame) ==
    IF b.expected_length = None
    THEN [buffer |-> b.buffer \o frame,
          expected_length |-> Some(Len(frame)),
          current_length |-> Len(frame)]
    ELSE [buffer |-> b.buffer \o frame,
          expected_length |-> b.expected_length,
          current_length |-> b.current_length + Len(frame)]

\* mutant of append: a consecutive frame does not advance current_length
append_no_count(b, frame) ==
    IF Len(frame) = 0 THEN b
    ELSE IF b.expected_length = None
    THEN [buffer |-> b.buffer \o frame,
          expected_length |-> Some(Len(frame)),
          current_length |-> Len(frame)]
    ELSE [b EXCEPT !.buffer = b.buffer \o frame]

\* mutant of append: the first byte of the first frame is read as the
\* announced length of the message
append_length_prefix(b, frame) ==
    IF Len(frame) = 0 THEN b
    ELSE IF b.expected_length = None
    THEN [buffer |-> b.buffer \o frame,
          expected_length |-> Some(frame[1]),
          current_length |-> Len(frame)]
    ELSE [buffer |-> b.buffer \o frame,
          expected_length |-> b.expected_length,
          current_length |-> b.current_length + Len(frame)]

\* append(data): the buffer after the call
append(b, frame) ==
    IF Len(frame) = 0 THEN b
    ELSE IF b.expected_length = None
    THEN [buffer |-> b.buffer \o frame,
          expected_length |-> Some(Len(frame)),
          current_length |-> Len(frame)]
    ELSE [buffer |-> b.buffer \o frame,
          expected_length |-> b.expected_length,
          current_length |-> b.current_length + Len(frame)]

\* mutant of is_complete: one byte more than the announced length is needed
is_complete_strict(b) ==
    /\ b.expected_length # None
    /\ b.current_length > b.expected_length[1]

\* is_complete()
is_complete(b) ==
    /\ b.expected_length # None
    /\ b.current_length >= b.expected_length[1]

\* mutant of reset: current_length is left as it was
reset_keeps_length(b) ==
    [buffer |-> <<>>, expected_length |-> None, current_length |-> b.current_length]

\* reset(): the buffer after the call
reset(b) ==
    [buffer |-> <<>>, expected_length |-> None, current_length |-> 0]

\* mutant of extract: the whole accumulation is returned, surplus included
extract_all(b) ==
    IF ~(b.expected_length # None /\ b.current_length >= b.expected_length[1])
    THEN [msg |-> None, buf |-> b]
    ELSE [msg |-> Some(b.buffer),
          buf |-> [buffer |-> <<>>, expected_length |-> None, current_length |-> 0]]

\* extract(): the value returned (msg) and the buffer after the call (buf)
extract(b) ==
    IF ~is_complete(b)
    THEN [msg |-> None, buf |-> b]
    ELSE [msg |-> Some(Take(b.buffer, b.expected_length[1])), buf |-> reset(b)]

----------------------------------------------------------------------------
(* Text *)

\* bytes.decode('utf-8', errors='ignore'): the code points of the well-formed
\* sequences, every other byte dropped.  One- and two-byte sequences are
\* modelled; the lead bytes of longer sequences (0xE0..0xF4) do not occur in
\* the byte values the model draws.
RECURSIVE decode(_)
decode(bs) ==
    IF bs = <<>> THEN <<>>
    ELSE IF bs[1] < 128 THEN <<bs[1]>> \o decode(Tail(bs))
    ELSE IF /\ bs[1] >= 194
            /\ bs[1] <= 223
            /\ Len(bs) >= 2
            /\ bs[2] >= 128
            /\ bs[2] <= 191
         THEN <<(bs[1] - 192) * 64 + (bs[2] - 128)>> \o decode(SubSeq(bs, 3, Len(bs)))
         ELSE decode(Tail(bs))

\* str.encode("utf-8") for code points below U+0800
RECURSIVE encode(_)
encode(str) ==
    IF str = <<>> THEN <<>>
    ELSE IF str[1] < 128 THEN <<str[1]>> \o encode(Tail(str))
    ELSE <<192 + (str[1] \div 64), 128 + (str[1] % 64)>> \o encode(Tail(str))

\* mutant of lower: the input is compared as typed
lower_as_typed(str) == str

\* str.lower() for code points below U+0100
lower(str) ==
    [k \in DOMAIN str |->
        IF \/ (str[k] >= 65 /\ str[k] <= 90)
           \/ (str[k] >= 192 /\ str[k] <= 222 /\ str[k] # 215)
        THEN str[k] + 32
        ELSE str[k]]

\* "\r"
CR == <<13>>

\* "exit"
ExitWord == <<101, 120, 105, 116>>

----------------------------------------------------------------------------
(* Program constants *)

\* "OBDLink CX"
DEVICE_NAME == <<79, 66, 68, 76, 105, 110, 107, 32, 67, 88>>

\* the name of some other device in range ("OBD")
OtherName == <<79, 66, 68>>

\* what BleakScanner.discover() may return (device names, in order)
DeviceLists ==
    {<<>>, <<OtherName>>, <<DEVICE_NAME>>, <<OtherName, DEVICE_NAME>>,
     <<DEVICE_NAME, OtherName>>}

\* the bytes of an ATT write header, subtracted from the MTU
LinkOverhead == 3

\* the MTU sizes a connection may negotiate
MtuSizes == {LinkOverhead + c : c \in 1..MaxCapacity}

\* initialize_device: commands
commands ==
    << <<65, 84, 90>>,                      \* ATZ
       <<65, 84, 87, 83>>,                  \* ATWS
       <<65, 84, 77, 48>>,                  \* ATM0
       <<65, 84, 83, 48>>,                  \* ATS0
       <<65, 84, 65, 84, 49>>,              \* ATAT1
       <<65, 84, 72, 49>>,                  \* ATH1
       <<65, 84, 83, 80, 55>>,              \* ATSP7
       <<65, 84, 83, 48>>,                  \* ATS0
       <<65, 84, 65, 82>>,                  \* ATAR
       <<65, 84, 70, 67, 83, 77, 32, 48>> >> \* ATFCSM 0

\* lines the user may type: "exit", "Exit", "", "0100", and U+00E9
Inputs ==
    {ExitWord, <<69, 120, 105, 116>>, <<>>, <<48, 49, 48, 48>>, <<233>>}

\* payloads the adapter may notify: b"", b"ABC", b"DE", b"\xc3\xa9\xff"
Notifications ==
    {<<>>, <<65, 66, 67>>, <<68, 69>>, <<195, 169, 255>>}

----------------------------------------------------------------------------
(* Output: PRINT_QUEUE, enqueue_output, output_handler *)

\* the message an f-string builds: which f-string it is, and the text it
\* interpolates (code points or bytes)
Msg(kind, arg) == [kind |-> kind, arg |-> arg]

\* mutant of put: the newest item is handed out first (a LifoQueue)
put_lifo(q, item) == <<item>> \o q

\* PRINT_QUEUE.put(item)
put(q, item) == Append(q, item)

\* enqueue_output(message): the message joins the queue
enqueue_output(m) ==
    /\ Len(PRINT_QUEUE) < MaxBacklog
    /\ PRINT_QUEUE' = put(PRINT_QUEUE, Some(m))
    /\ enqueued' = Append(enqueued, m)
    /\ UNCHANGED <<out_pc, printedInOrder>>

\* output_handler: one turn of the loop that prints a message
OutputHandlerPrint ==
    /\ out_pc = "running"
    /\ PRINT_QUEUE # <<>>
    /\ Head(PRINT_QUEUE) # None
    /\ PRINT_QUEUE' = Tail(PRINT_QUEUE)
    /\ printedInOrder' = (/\ printedInOrder
                           /\ enqueued # <<>>
                           /\ Head(PRINT_QUEUE) = Some(Head(enqueued)))
    /\ enqueued' = IF enqueued = <<>> THEN <<>> ELSE Tail(enqueued)
    /\ UNCHANGED <<out_pc, pc, cmdIdx, command, multi_frame_buffer>>
    /\ UNCHANGED <<scanVars, linkVars, writerVars, notifVars, ending>>

\* mutant of OutputHandlerStop: None is taken like a message and the loop
\* goes on
OutputHandlerStop_no_break ==
    /\ out_pc = "running"
    /\ PRINT_QUEUE # <<>>
    /\ Head(PRINT_QUEUE) = None
    /\ PRINT_QUEUE' = Tail(PRINT_QUEUE)
    /\ UNCHANGED <<out_pc, enqueued, printedInOrder, pc, cmdIdx, command, multi_frame_buffer>>
    /\ UNCHANGED <<scanVars, linkVars, writerVars, notifVars, ending>>

\* output_handler: the turn of the loop that reads None and breaks
OutputHandlerStop ==
    /\ out_pc = "running"
    /\ PRINT_QUEUE # <<>>
    /\ Head(PRINT_QUEUE) = None
    /\ PRINT_QUEUE' = Tail(PRINT_QUEUE)
    /\ out_pc' = "stopped"
    /\ UNCHANGED <<enqueued, printedInOrder, pc, cmdIdx, command, multi_frame_buffer>>
    /\ UNCHANGED <<scanVars, linkVars, writerVars, notifVars, ending>>

----------------------------------------------------------------------------
(* notification_handler *)

\* mutant of notification_step: the message is read without extract(), so
\* the buffer is not reset
notification_step_no_extract(b, payload) ==
    LET appended == append(b, payload)
    IN  IF is_complete(appended)
        THEN [buf |-> appended,
              out |-> Some(Msg("CompleteResponse",
                               decode(Take(appended.buffer, appended.expected_length[1]))))]
        ELSE [buf |-> appended, out |-> None]

\* the body of notification_handler: the buffer after it (buf) and the
\* message it enqueues, if any (out)
notification_step(b, payload) ==
    LET appended == append(b, payload)
    IN  IF is_complete(appended)
        THEN [buf |-> extract(appended).buf,
              out |-> Some(Msg("CompleteResponse", decode(extract(appended).msg[1])))]
        ELSE [buf |-> appended, out |-> None]

\* mutant of NotificationHandler: the handler runs only between the commands
\* of the outbound task
NotificationHandler_between_commands(payload) ==
    /\ connected
    /\ subscribed
    /\ wpc = "idle"
    /\ pc # "input"
    /\ LET r == notification_step(multi_frame_buffer, payload)
       IN  /\ multi_frame_buffer' = r.buf
           /\ lastOut' = r.out
           /\ IF r.out # None
              THEN enqueue_output(r.out[1])
              ELSE UNCHANGED outVars
    /\ lastNotif' = Some(payload)
    /\ UNCHANGED <<pc, cmdIdx, command, ending>>
    /\ UNCHANGED <<scanVars, linkVars, writerVars>>

\* a notification is delivered and notification_handler runs; it has no
\* point of suspension (the queue is unbounded), so it runs as one step
NotificationHandler(payload) ==
    /\ connected
    /\ subscribed
    /\ LET r == notification_step(multi_frame_buffer, payload)
       IN  /\ multi_frame_buffer' = r.buf
           /\ lastOut' = r.out
           /\ IF r.out # None
              THEN enqueue_output(r.out[1])
              ELSE UNCHANGED outVars
    /\ lastNotif' = Some(payload)
    /\ UNCHANGED <<pc, cmdIdx, command, ending>>
    /\ UNCHANGED <<scanVars, linkVars, writerVars>>

----------------------------------------------------------------------------
(* write_with_response and write_in_chunks *)

\* mtu_size = client.mtu_size - 3
capacity(mtu) == mtu - LinkOverhead

\* mutant of chunk_at: the slice stops one byte early
chunk_at_short(bytes, k, cap) ==
    SubSeq(bytes, k + 1, IF k + cap - 1 < Len(bytes) THEN k + cap - 1 ELSE Len(bytes))

\* data[i:i + mtu_size]
chunk_at(bytes, k, cap) ==
    SubSeq(bytes, k + 1, IF k + cap < Len(bytes) THEN k + cap ELSE Len(bytes))

\* mutant of Awaited: the caller does not wait for write_in_chunks
\* (the coroutine is started as a task of its own)
not_awaited(w) == TRUE

\* `await write_in_chunks(...)`: the caller goes on once the call has returned
Awaited(w) == w = "idle"

\* the rest of the state, for a step of the main task that only moves on
MainFrame ==
    /\ UNCHANGED <<multi_frame_buffer, lastOp, ret, frames>>
    /\ UNCHANGED notifVars
    /\ UNCHANGED ending

\* the same for a step that makes the session end: the first cause is kept
MainFrameEnds(how) ==
    /\ UNCHANGED <<multi_frame_buffer, lastOp, ret, frames>>
    /\ UNCHANGED notifVars
    /\ ending' = IF ending = "none" THEN how ELSE ending

\* the caller of write_in_chunks goes on after the call: the arguments and
\* the record of the call are dropped
CallerGoesOn ==
    /\ command' = <<>>
    /\ data' = <<>>
    /\ chunks' = <<>>
    /\ prevOutcome' = "none"
    /\ cmdFailed' = FALSE
    /\ UNCHANGED <<wpc, i, inflight, openCmds>>

\* write_in_chunks(client, bytes) is called
CallWriteInChunks(bytes) ==
    /\ data' = bytes
    /\ i' = 0
    /\ wpc' = "loop"
    /\ chunks' = <<>>
    /\ prevOutcome' = "none"
    /\ cmdFailed' = FALSE
    /\ openCmds' = Append(openCmds, bytes)
    /\ UNCHANGED inflight

\* write_in_chunks: the next chunk is announced and handed to write_gatt_char
WriteChunk ==
    /\ wpc = "loop"
    /\ i < Len(data)
    /\ LET chunk == chunk_at(data, i, capacity(mtu_size))
       IN  /\ enqueue_output(Msg("WritingChunk", chunk))
           /\ inflight' = Some(chunk)
           /\ chunks' = Append(chunks, chunk)
    /\ wpc' = "await_write"
    /\ UNCHANGED <<data, i, prevOutcome, cmdFailed, openCmds>>
    /\ UNCHANGED <<pc, cmdIdx, command>>
    /\ UNCHANGED <<scanVars, linkVars>>
    /\ MainFrame

\* mutant of WriteAcked: the acknowledged chunk is fed to the reassembly
\* buffer
WriteAcked_into_buffer ==
    /\ wpc = "await_write"
    /\ enqueue_output(Msg("WriteSuccessful", decode(inflight[1])))
    /\ multi_frame_buffer' = append(multi_frame_buffer, inflight[1])
    /\ inflight' = None
    /\ prevOutcome' = "ack"
    /\ wpc' = "sleep"
    /\ UNCHANGED <<data, i, chunks, cmdFailed, openCmds>>
    /\ UNCHANGED <<pc, cmdIdx, command>>
    /\ UNCHANGED <<scanVars, linkVars>>
    /\ UNCHANGED <<lastOp, ret, frames>>
    /\ UNCHANGED <<notifVars, ending>>

\* write_with_response: the write is acknowledged
WriteAcked ==
    /\ wpc = "await_write"
    /\ enqueue_output(Msg("WriteSuccessful", decode(inflight[1])))
    /\ inflight' = None
    /\ prevOutcome' = "ack"
    /\ wpc' = "sleep"
    /\ UNCHANGED <<data, i, chunks, cmdFailed, openCmds>>
    /\ UNCHANGED <<pc, cmdIdx, command>>
    /\ UNCHANGED <<scanVars, linkVars>>
    /\ MainFrame

\* the classes of the exceptions write_gatt_char raises: bleak's own, and
\* one that is not a BleakError
ExceptionTypes == {"BleakError", "OSError"}

\* the exceptions, each with the text str(e) gives
Exceptions ==
    {[type |-> "BleakError", text |-> <<78, 67>>],
     [type |-> "OSError", text |-> <<73, 79>>]}

\* mutant of except_Exception: the handler names BleakError
except_BleakError_only(e) == e.type = "BleakError"

\* `except Exception as e` of write_with_response: every exception class
\* matches
except_Exception(e) == e.type \in ExceptionTypes

\* `except BleakError as e` of interactive_shell
except_BleakError(e) == e.type = "BleakError"

\* an exception leaves write_with_response and write_in_chunks and reaches
\* the caller's handlers: initialize_device logs it and goes on with the
\* list; interactive_shell logs a BleakError and prompts again; any other
\* exception leaves the client context and main
Propagate(e) ==
    /\ wpc' = "idle"
    /\ openCmds' = IF openCmds = <<>> THEN <<>> ELSE Tail(openCmds)
    /\ i' = 0
    /\ UNCHANGED <<scanVars, mtu_size, cmdIdx>>
    /\ IF pc = "init_wait"
       THEN /\ enqueue_output(Msg("ErrorSendingInit", command \o e.text))
            /\ prevOutcome' = "fail"
            /\ cmdFailed' = TRUE
            /\ UNCHANGED <<pc, command, data, chunks, connected, subscribed>>
       ELSE /\ command' = <<>>
            /\ data' = <<>>
            /\ chunks' = <<>>
            /\ prevOutcome' = "none"
            /\ cmdFailed' = FALSE
            /\ IF except_BleakError(e)
               THEN /\ enqueue_output(Msg("ErrorSendingCommand", e.text))
                    /\ pc' = "prompt"
                    /\ UNCHANGED <<connected, subscribed>>
               ELSE /\ pc' = "crashed"
                    /\ connected' = FALSE
                    /\ subscribed' = FALSE
                    /\ UNCHANGED outVars

\* write_with_response: write_gatt_char raises e
WriteRaised(e) ==
    /\ wpc = "await_write"
    /\ inflight' = None
    /\ IF except_Exception(e)
       THEN /\ enqueue_output(Msg("ErrorDuringWrite", e.text))
            /\ prevOutcome' = "fail"
            /\ cmdFailed' = TRUE
            /\ wpc' = "sleep"
            /\ UNCHANGED <<data, i, chunks, openCmds>>
            /\ UNCHANGED <<pc, cmdIdx, command>>
            /\ UNCHANGED <<scanVars, linkVars>>
       ELSE Propagate(e)
    /\ MainFrame

\* write_in_chunks: asyncio.sleep(0.1) is over, the loop variable advances
SleepDone ==
    /\ wpc = "sleep"
    /\ i' = i + capacity(mtu_size)
    /\ wpc' = "loop"
    /\ UNCHANGED <<data, inflight, chunks, prevOutcome, cmdFailed, openCmds>>
    /\ UNCHANGED <<pc, cmdIdx, command>>
    /\ UNCHANGED <<scanVars, linkVars, outVars>>
    /\ MainFrame

\* write_in_chunks: the range is exhausted, the call returns
WriteInChunksReturn ==
    /\ wpc = "loop"
    /\ i >= Len(data)
    /\ wpc' = "idle"
    /\ openCmds' = IF openCmds = <<>> THEN <<>> ELSE Tail(openCmds)
    /\ i' = 0
    /\ UNCHANGED <<data, inflight, chunks, prevOutcome, cmdFailed>>
    /\ UNCHANGED <<pc, cmdIdx, command>>
    /\ UNCHANGED <<scanVars, linkVars, outVars>>
    /\ MainFrame

----------------------------------------------------------------------------
(* connect_and_enable_notifications: discovery *)

\* a step of the main task that enqueues one message and moves on
Say(from, m, to) ==
    /\ pc = from
    /\ enqueue_output(m)
    /\ pc' = to
    /\ UNCHANGED <<cmdIdx, command>>
    /\ UNCHANGED <<scanVars, linkVars, writerVars>>
    /\ MainFrame

\* a step of the main task that waits for the transport and moves on
Wait(from, to) ==
    /\ pc = from
    /\ pc' = to
    /\ UNCHANGED <<cmdIdx, command>>
    /\ UNCHANGED <<scanVars, writerVars, outVars>>
    /\ MainFrame

\* a call of the client raises BleakError: on to the handler of
\* connect_and_enable_notifications
Raise(from) ==
    /\ pc = from
    /\ pc' = "bleak_error"
    /\ UNCHANGED <<cmdIdx, command>>
    /\ UNCHANGED <<scanVars, writerVars, outVars>>
    /\ MainFrameEnds("connection_error")

ScanningMsg == Say("start", Msg("Scanning", <<>>), "discover")

\* BleakScanner.discover() returns
Discover ==
    /\ pc = "discover"
    /\ devices' \in DeviceLists
    /\ devIdx' = 1
    /\ pc' = "scan_loop"
    /\ UNCHANGED <<cmdIdx, command>>
    /\ UNCHANGED <<linkVars, writerVars, outVars>>
    /\ MainFrame

\* the device loop: a device of another name
ScanOther ==
    /\ pc = "scan_loop"
    /\ devIdx <= Len(devices)
    /\ devices[devIdx] # DEVICE_NAME
    /\ enqueue_output(Msg("FoundDevice", devices[devIdx]))
    /\ devIdx' = devIdx + 1
    /\ UNCHANGED <<pc, devices, cmdIdx, command>>
    /\ UNCHANGED <<linkVars, writerVars>>
    /\ MainFrame

\* the device loop: the target device, break
ScanTarget ==
    /\ pc = "scan_loop"
    /\ devIdx <= Len(devices)
    /\ devices[devIdx] = DEVICE_NAME
    /\ enqueue_output(Msg("FoundDevice", devices[devIdx]))
    /\ pc' = "connecting"
    /\ devices' = <<>>
    /\ devIdx' = 0
    /\ UNCHANGED <<cmdIdx, command>>
    /\ UNCHANGED <<linkVars, writerVars>>
    /\ MainFrame

\* mutant of NotFound: the `return` after "not found" is missing
NotFound_no_return ==
    /\ pc = "scan_loop"
    /\ devIdx > Len(devices)
    /\ enqueue_output(Msg("NotFound", DEVICE_NAME))
    /\ pc' = "connecting"
    /\ devices' = <<>>
    /\ devIdx' = 0
    /\ UNCHANGED <<cmdIdx, command>>
    /\ UNCHANGED <<linkVars, writerVars>>
    /\ MainFrameEnds("not_found")

\* the device loop ends without the target: "not found", return
NotFound ==
    /\ pc = "scan_loop"
    /\ devIdx > Len(devices)
    /\ enqueue_output(Msg("NotFound", DEVICE_NAME))
    /\ pc' = "put_sentinel"
    /\ devices' = <<>>
    /\ devIdx' = 0
    /\ UNCHANGED <<cmdIdx, command>>
    /\ UNCHANGED <<linkVars, writerVars>>
    /\ MainFrameEnds("not_found")

----------------------------------------------------------------------------
(* connect_and_enable_notifications: the connection *)

ConnectingMsg == Say("connecting", Msg("Connecting", DEVICE_NAME), "connect")

\* async with BleakClient(...): connected, an MTU is negotiated
ConnectOk ==
    /\ Wait("connect", "connected")
    /\ connected' = TRUE
    /\ mtu_size' \in MtuSizes
    /\ UNCHANGED subscribed

\* async with BleakClient(...): raises BleakError
ConnectRaised ==
    /\ Raise("connect")
    /\ UNCHANGED linkVars

ConnectedMsg == Say("connected", Msg("Connected", <<>>), "mtu")

MtuMsg == Say("mtu", Msg("NegotiatedMtu", <<mtu_size>>), "subscribing")

SubscribingMsg == Say("subscribing", Msg("Subscribing", <<>>), "start_notify")

\* client.start_notify(FFF1_NOTIFY_UUID, notification_handler) succeeds
StartNotifyOk ==
    /\ Wait("start_notify", "enabled")
    /\ subscribed' = TRUE
    /\ UNCHANGED <<connected, mtu_size>>

\* client.start_notify raises BleakError: the client context is left
StartNotifyRaised ==
    /\ Raise("start_notify")
    /\ connected' = FALSE
    /\ subscribed' = FALSE
    /\ UNCHANGED mtu_size

\* "Notifications enabled."; initialize_device is entered
EnabledMsg ==
    /\ pc = "enabled"
    /\ enqueue_output(Msg("NotificationsEnabled", <<>>))
    /\ pc' = "init_loop"
    /\ cmdIdx' = 1
    /\ UNCHANGED command
    /\ UNCHANGED <<scanVars, linkVars, writerVars>>
    /\ MainFrame

----------------------------------------------------------------------------
(* initialize_device *)

\* the next command of the list: announced, then write_in_chunks is called
InitSend ==
    /\ pc = "init_loop"
    /\ cmdIdx <= Len(commands)
    /\ enqueue_output(Msg("SendingInit", commands[cmdIdx]))
    /\ command' = commands[cmdIdx]
    /\ CallWriteInChunks(encode(commands[cmdIdx] \o CR))
    /\ pc' = "init_wait"
    /\ UNCHANGED cmdIdx
    /\ UNCHANGED <<scanVars, linkVars>>
    /\ MainFrame

\* mutant of InitNext: a command with a failed write ends the list
InitNext_stop_on_failure ==
    /\ pc = "init_wait"
    /\ Awaited(wpc)
    /\ cmdIdx' = IF cmdFailed THEN Len(commands) + 1 ELSE cmdIdx + 1
    /\ pc' = "init_loop"
    /\ CallerGoesOn
    /\ UNCHANGED <<scanVars, linkVars, outVars>>
    /\ MainFrame

\* write_in_chunks has returned: on to the next command
InitNext ==
    /\ pc = "init_wait"
    /\ Awaited(wpc)
    /\ cmdIdx' = cmdIdx + 1
    /\ pc' = "init_loop"
    /\ CallerGoesOn
    /\ UNCHANGED <<scanVars, linkVars, outVars>>
    /\ MainFrame

\* the list is exhausted: interactive_shell is entered
ShellBanner ==
    /\ pc = "init_loop"
    /\ cmdIdx > Len(commands)
    /\ enqueue_output(Msg("ShellBanner", <<>>))
    /\ pc' = "prompt"
    /\ cmdIdx' = 0
    /\ command' = <<>>
    /\ UNCHANGED <<scanVars, linkVars, writerVars>>
    /\ MainFrame

----------------------------------------------------------------------------
(* interactive_shell *)

PromptMsg == Say("prompt", Msg("Prompt", <<>>), "input")

\* input() returns the exit word: "Exiting interactive shell...", break
InputExit(line) ==
    /\ pc = "input"
    /\ lower(line) = ExitWord
    /\ enqueue_output(Msg("Exiting", <<>>))
    /\ command' = <<>>
    /\ pc' = "stopping"
    /\ UNCHANGED cmdIdx
    /\ UNCHANGED <<scanVars, linkVars, writerVars>>
    /\ MainFrameEnds("exit")

\* input() returns a command: write_in_chunks is called
InputCommand(line) ==
    /\ pc = "input"
    /\ lower(line) # ExitWord
    /\ command' = line
    /\ CallWriteInChunks(encode(line \o CR))
    /\ pc' = "shell_wait"
    /\ UNCHANGED cmdIdx
    /\ UNCHANGED <<scanVars, linkVars, outVars>>
    /\ MainFrame

\* mutant of SentMsg: "Sent: ..." is left out when a write of the command
\* failed
SentMsg_unless_failed ==
    /\ pc = "shell_wait"
    /\ Awaited(wpc)
    /\ IF cmdFailed THEN UNCHANGED outVars ELSE enqueue_output(Msg("Sent", command))
    /\ pc' = "prompt"
    /\ CallerGoesOn
    /\ UNCHANGED cmdIdx
    /\ UNCHANGED <<scanVars, linkVars>>
    /\ MainFrame

\* write_in_chunks has returned: "Sent: ...", back to the prompt
SentMsg ==
    /\ pc = "shell_wait"
    /\ Awaited(wpc)
    /\ enqueue_output(Msg("Sent", command))
    /\ pc' = "prompt"
    /\ CallerGoesOn
    /\ UNCHANGED cmdIdx
    /\ UNCHANGED <<scanVars, linkVars>>
    /\ MainFrame

----------------------------------------------------------------------------
(* connect_and_enable_notifications: teardown; main *)

StoppingMsg == Say("stopping", Msg("StoppingNotifications", <<>>), "stop_notify")

\* client.stop_notify(FFF1_NOTIFY_UUID) succeeds
StopNotifyOk ==
    /\ Wait("stop_notify", "stopped")
    /\ subscribed' = FALSE
    /\ UNCHANGED <<connected, mtu_size>>

\* client.stop_notify raises BleakError: the client context is left
StopNotifyRaised ==
    /\ Raise("stop_notify")
    /\ connected' = FALSE
    /\ subscribed' = FALSE
    /\ UNCHANGED mtu_size

StoppedMsg == Say("stopped", Msg("NotificationsStopped", <<>>), "disconnect")

\* the client context is left: disconnect
Disconnect ==
    /\ Wait("disconnect", "put_sentinel")
    /\ connected' = FALSE
    /\ UNCHANGED <<subscribed, mtu_size>>

\* except BleakError: "An error occurred: ..."
BleakErrorMsg == Say("bleak_error", Msg("AnErrorOccurred", <<>>), "put_sentinel")

\* main: PRINT_QUEUE.put(None)
PutSentinel ==
    /\ pc = "put_sentinel"
    /\ Len(PRINT_QUEUE) < MaxBacklog
    /\ PRINT_QUEUE' = put(PRINT_QUEUE, None)
    /\ pc' = "await_output"
    /\ UNCHANGED <<out_pc, enqueued, printedInOrder, cmdIdx, command>>
    /\ UNCHANGED <<scanVars, linkVars, writerVars>>
    /\ MainFrame

\* main: await output_task
OutputTaskJoined ==
    /\ pc = "await_output"
    /\ out_pc = "stopped"
    /\ pc' = "done"
    /\ UNCHANGED <<cmdIdx, command>>
    /\ UNCHANGED <<scanVars, linkVars, writerVars, outVars>>
    /\ MainFrame

----------------------------------------------------------------------------
(* The program *)

\* the module's globals, and main() about to run with output_handler started
SessionInit ==
    /\ PRINT_QUEUE = <<>>
    /\ out_pc = "running"
    /\ pc = "start"
    /\ wpc = "idle"
    /\ devices = <<>>
    /\ devIdx = 0
    /\ connected = FALSE
    /\ subscribed = FALSE
    /\ mtu_size = 0
    /\ cmdIdx = 0
    /\ command = <<>>
    /\ data = <<>>
    /\ i = 0
    /\ inflight = None
    /\ enqueued = <<>>
    /\ printedInOrder = TRUE
    /\ chunks = <<>>
    /\ prevOutcome = "none"
    /\ cmdFailed = FALSE
    /\ openCmds = <<>>
    /\ lastNotif = None
    /\ lastOut = None
    /\ ending = "none"

----------------------------------------------------------------------------
(* The buffer's methods called in any order: SpecBuf *)

Init ==
    /\ multi_frame_buffer = MultiFrameBufferInit
    /\ lastOp = "init"
    /\ ret = None
    /\ frames = <<>>
    /\ SessionInit

CallAppend(frame) ==
    /\ UNCHANGED sessVars
    /\ Len(frames) < MaxFrames
    /\ multi_frame_buffer' = append(multi_frame_buffer, frame)
    /\ lastOp' = "append"
    /\ ret' = None
    /\ frames' = Append(frames, frame)

CallIsComplete ==
    /\ UNCHANGED sessVars
    /\ lastOp' = "is_complete"
    /\ ret' = Some(is_complete(multi_frame_buffer))
    /\ UNCHANGED <<multi_frame_buffer, frames>>

CallExtract ==
    /\ UNCHANGED sessVars
    /\ multi_frame_buffer' = extract(multi_frame_buffer).buf
    /\ ret' = extract(multi_frame_buffer).msg
    /\ lastOp' = "extract"
    /\ frames' = <<>>

CallReset ==
    /\ UNCHANGED sessVars
    /\ multi_frame_buffer' = reset(multi_frame_buffer)
    /\ ret' = None
    /\ lastOp' = "reset"
    /\ frames' = <<>>

NextBuf ==
    \/ \E frame \in Payloads : CallAppend(frame)
    \/ CallIsComplete
    \/ CallExtract
    \/ CallReset

SpecBuf == Init /\ [][NextBuf]_vars

\* C19: whenever expected_length is set, current_length >= expected_length:
\* every Accumulating state is complete, no state waits for further frames,
\* and extract() returns None exactly when the buffer is idle.
C19_AccumulatingIsComplete ==
    /\ multi_frame_buffer.expected_length # None =>
           multi_frame_buffer.current_length >= multi_frame_buffer.expected_length[1]
    /\ (extract(multi_frame_buffer).msg = None) <=>
           (multi_frame_buffer = MultiFrameBufferInit)
    /\ (lastOp = "extract" /\ ret = None) => multi_frame_buffer = MultiFrameBufferInit

\* C19 witness: three frames are accumulated and the buffer holds more bytes
\* than the first frame announced
C19_Witness ==
    /\ lastOp = "append"
    /\ Len(frames) = 3
    /\ multi_frame_buffer.expected_length # None
    /\ multi_frame_buffer.current_length > multi_frame_buffer.expected_length[1] + 1

----------------------------------------------------------------------------
(* The session: Spec *)

Discovery ==
    \/ ScanningMsg
    \/ Discover
    \/ ScanOther
    \/ ScanTarget
    \/ NotFound

Connection ==
    \/ ConnectingMsg
    \/ ConnectOk
    \/ ConnectRaised
    \/ ConnectedMsg
    \/ MtuMsg
    \/ SubscribingMsg
    \/ StartNotifyOk
    \/ StartNotifyRaised
    \/ EnabledMsg

Initialization ==
    \/ InitSend
    \/ InitNext
    \/ ShellBanner

Shell ==
    \/ PromptMsg
    \/ \E line \in Inputs : InputExit(line)
    \/ \E line \in Inputs : InputCommand(line)
    \/ SentMsg

Writer ==
    \/ WriteChunk
    \/ WriteAcked
    \/ \E e \in Exceptions : WriteRaised(e)
    \/ SleepDone
    \/ WriteInChunksReturn

Teardown ==
    \/ StoppingMsg
    \/ StopNotifyOk
    \/ StopNotifyRaised
    \/ StoppedMsg
    \/ Disconnect
    \/ BleakErrorMsg
    \/ PutSentinel
    \/ OutputTaskJoined

Inbound ==
    \E payload \in Notifications :
        NotificationHandler(payload) /\ UNCHANGED <<lastOp, ret, frames>>

Output ==
    \/ OutputHandlerPrint /\ UNCHANGED <<lastOp, ret, frames>>
    \/ OutputHandlerStop /\ UNCHANGED <<lastOp, ret, frames>>

Next ==
    \/ Discovery
    \/ Connection
    \/ Initialization
    \/ Shell
    \/ Writer
    \/ Teardown
    \/ Inbound
    \/ Output

Spec == Init /\ [][Next]_vars

\* what the event loop and the transport guarantee: a task that is ready
\* runs, a write is answered, a pacing delay ends, the calls of the
\* teardown return.  The user is not obliged to type, the adapter is not
\* obliged to notify.  (Strong fairness where the step enqueues: the queue
\* of the program is unbounded, a full queue is only a bound of the model.)
Fairness ==
    /\ WF_vars(Output)
    /\ SF_vars(Writer)
    /\ SF_vars(SentMsg)
    /\ SF_vars(Initialization)
    /\ SF_vars(Teardown)

FairSpec == Spec /\ Fairness


----------------------------------------------------------------------------
(* Claims about MultiFrameBuffer, checked under SpecBuf *)

\* the frames appended since the buffer was last idle are all non-empty
OnlyNonEmptyFrames ==
    /\ frames # <<>>
    /\ \A k \in DOMAIN frames : frames[k] # <<>>

\* C1: after non-empty payloads f1..fn have been appended to an idle buffer
\* with no extract() or reset() in between, is_complete() is true,
\* current_length >= len(f1), and the following extract() returns exactly the
\* first len(f1) bytes of the accumulation, which are f1; surplus bytes of
\* f2..fn are discarded.
C1_FirstFrameIsTheMessage ==
    OnlyNonEmptyFrames =>
        /\ is_complete(multi_frame_buffer)
        /\ multi_frame_buffer.current_length >= Len(frames[1])
        /\ (lastOp = "is_complete" => ret = Some(TRUE))
        /\ extract(multi_frame_buffer).msg = Some(frames[1])
        /\ extract(multi_frame_buffer).msg
               = Some(Take(multi_frame_buffer.buffer, Len(frames[1])))

\* C1 witness: three non-empty frames are accumulated, is_complete() has just
\* answered, and the accumulation holds surplus bytes beyond f1
C1_Witness ==
    /\ OnlyNonEmptyFrames
    /\ Len(frames) = 3
    /\ lastOp = "is_complete"
    /\ Len(multi_frame_buffer.buffer) > Len(frames[1])

\* C7: after extract() or reset() the buffer equals a freshly constructed one
\* (buffer empty, expected_length None, current_length 0), whatever state the
\* call was made in.
C7_FreshAfterExtractOrReset ==
    lastOp \in {"extract", "reset"} => multi_frame_buffer = MultiFrameBufferInit

\* C7 witness: extract() has just returned a message (it was called while
\* accumulating)
C7_Witness ==
    /\ lastOp = "extract"
    /\ ret # None

\* C8: append of a zero-length payload leaves buffer, expected_length and
\* current_length as they were, in the Idle and in the Accumulating state.
C8_EmptyAppendIsNoOp ==
    [][frames' = Append(frames, <<>>) => multi_frame_buffer' = multi_frame_buffer]_vars

\* C8 witness: two empty payloads in a row have been appended to an
\* accumulating buffer
C8_Witness ==
    /\ lastOp = "append"
    /\ Len(frames) = 3
    /\ frames[1] # <<>>
    /\ frames[2] = <<>>
    /\ frames[3] = <<>>
    /\ multi_frame_buffer.expected_length = Some(Len(frames[1]))

\* C9: expected_length is None exactly when the buffer is idle (buffer empty
\* and current_length 0), and current_length equals len(buffer).
C9_IdleIffNoExpectedLength ==
    /\ (multi_frame_buffer.expected_length = None) <=>
           (multi_frame_buffer.buffer = <<>> /\ multi_frame_buffer.current_length = 0)
    /\ multi_frame_buffer.current_length = Len(multi_frame_buffer.buffer)

\* C9 witness: a consecutive frame has been appended to an accumulating buffer
C9_Witness ==
    /\ lastOp = "append"
    /\ multi_frame_buffer.expected_length # None
    /\ Len(frames) >= 2
    /\ frames[Len(frames)] # <<>>
    /\ Len(multi_frame_buffer.buffer) > Len(frames[Len(frames)])

----------------------------------------------------------------------------
(* Claims about the chunked writer, checked under Spec *)

\* the chunks of a sequence of chunks, joined
RECURSIVE Flatten(_)
Flatten(cs) == IF cs = <<>> THEN <<>> ELSE Head(cs) \o Flatten(Tail(cs))

\* ceil(L / C)
CeilDiv(L, C) == (L + C - 1) \div C

\* a call of write_in_chunks is running, or has returned and its caller has
\* not gone on yet
InWriteInChunks == pc \in {"init_wait", "shell_wait"}

\* C2: once a write of a command has raised, no later chunk of that command
\* is handed to the transport.
C2_FailureAbortsCommand ==
    ~(InWriteInChunks /\ cmdFailed /\ inflight # None)

\* C3: write_in_chunks issues at most ceil(L/C) writes, and exactly that many
\* when it returns; every chunk is non-empty, every chunk but the last has
\* size C, and the chunks in write order join to the payload.
C3_ChunksPartitionPayload ==
    InWriteInChunks =>
        LET cap == capacity(mtu_size)
            n == CeilDiv(Len(data), cap)
        IN  /\ Len(data) >= 1
            /\ cap >= 1
            /\ Len(chunks) <= n
            /\ \A k \in DOMAIN chunks :
                   /\ chunks[k] # <<>>
                   /\ Len(chunks[k]) <= cap
                   /\ k < n => Len(chunks[k]) = cap
            /\ Flatten(chunks) = Take(data, Len(Flatten(chunks)))
            /\ wpc = "idle" => (Len(chunks) = n /\ Flatten(chunks) = data)

\* C3 witness: write_in_chunks has returned after three chunks, the last one
\* shorter than the capacity
C3_Witness ==
    /\ InWriteInChunks
    /\ wpc = "idle"
    /\ Len(chunks) = 3
    /\ Len(chunks[3]) < capacity(mtu_size)
    /\ Len(chunks[3]) >= 1

\* C4: chunks are written in increasing offset order, at most one write is in
\* flight, and a chunk after the first is handed to the transport only when
\* the chunk before it was acknowledged.
C4_AckBeforeNextChunk ==
    InWriteInChunks =>
        /\ inflight # None => wpc = "await_write"
        /\ \A k \in DOMAIN chunks :
               chunks[k] = chunk_at(data, (k - 1) * capacity(mtu_size), capacity(mtu_size))
        /\ (inflight # None /\ Len(chunks) >= 2) => prevOutcome = "ack"

\* C5: commands are not pipelined.  At most one call of write_in_chunks is
\* open; a chunk in flight is the latest chunk of that call and continues its
\* payload; and wherever the main task is about to start another command (or
\* anything else), no call is open and no write is in flight.
C5_NoPipelining ==
    /\ Len(openCmds) <= 1
    /\ wpc # "idle" => (InWriteInChunks /\ openCmds = <<data>>)
    /\ inflight # None =>
           /\ wpc = "await_write"
           /\ Len(openCmds) = 1
           /\ chunks # <<>>
           /\ inflight = Some(chunks[Len(chunks)])
           /\ Flatten(chunks) = Take(openCmds[1], Len(Flatten(chunks)))
    /\ ~InWriteInChunks => (openCmds = <<>> /\ inflight = None /\ wpc = "idle")

\* C5 witness: in the interactive loop, after the initialization sequence,
\* the second chunk of a command is in flight
C5_Witness ==
    /\ pc = "shell_wait"
    /\ inflight # None
    /\ Len(chunks) = 2

----------------------------------------------------------------------------
(* Claims about the inbound path and the output, checked under Spec *)

\* the complete-response messages waiting in PRINT_QUEUE, oldest first
WaitingResponses ==
    SelectSeq(PRINT_QUEUE, LAMBDA item : item # None /\ item[1].kind = "CompleteResponse")

\* between two runs of notification_handler the buffer is idle, an empty
\* notification enqueues nothing, and a non-empty one enqueues one complete
\* response behind those still waiting
OneResponsePerNotification ==
    /\ multi_frame_buffer = MultiFrameBufferInit
    /\ lastNotif # None =>
           /\ (lastNotif[1] = <<>>) <=> (lastOut = None)
           /\ lastOut # None => lastOut[1].kind = "CompleteResponse"
           /\ (lastOut # None /\ WaitingResponses # <<>>) =>
                  WaitingResponses[Len(WaitingResponses)] = lastOut

\* C6 as stated: every non-empty notification produces one complete-response
\* event whose payload is exactly the bytes of that notification.
C6_ResponseIsTheBytes ==
    /\ OneResponsePerNotification
    /\ (lastNotif # None /\ lastOut # None) => encode(lastOut[1].arg) = lastNotif[1]

\* C6 amended: every non-empty notification produces one complete-response
\* event whose payload is the UTF-8 decoding of the bytes of that
\* notification alone, undecodable bytes dropped; the buffer is idle again
\* afterwards, so no frame is appended to an earlier frame's message.
C6_ResponseIsTheDecodedBytes ==
    /\ OneResponsePerNotification
    /\ (lastNotif # None /\ lastOut # None) => lastOut[1].arg = decode(lastNotif[1])

\* C6 witness: b"ABC" then b"DE" were notified; two separate responses wait
\* in the queue, in that order
C6_Witness ==
    /\ lastNotif = Some(<<68, 69>>)
    /\ PRINT_QUEUE = <<Some(Msg("CompleteResponse", <<65, 66, 67>>)),
                       Some(Msg("CompleteResponse", <<68, 69>>))>>

\* the messages waiting in PRINT_QUEUE, oldest first
WaitingMessages ==
    SelectSeq(PRINT_QUEUE, LAMBDA item : item # None)

\* C10: output_handler prints the messages in the order they were enqueued,
\* each once: every message printed was the oldest one enqueued and not yet
\* printed, and the messages waiting are those enqueued and not yet printed,
\* in enqueue order.
C10_PrintedInEnqueueOrder ==
    /\ printedInOrder
    /\ WaitingMessages = [k \in DOMAIN enqueued |-> Some(enqueued[k])]

\* C10 witness: an inbound message waits in front of an outbound one while
\* the third chunk of a command is being written
C10_Witness ==
    /\ Len(chunks) = 3
    /\ Len(PRINT_QUEUE) = 2
    /\ PRINT_QUEUE[1] # None
    /\ PRINT_QUEUE[2] # None
    /\ PRINT_QUEUE[1][1].kind = "CompleteResponse"
    /\ PRINT_QUEUE[2][1].kind = "WriteSuccessful"

----------------------------------------------------------------------------
(* Failures of a write *)

\* a step in which the write in flight ends with an exception
WriteFails == inflight # None /\ inflight' = None /\ prevOutcome' = "fail"

\* C14: a write that raises, whatever the class of the exception, enqueues
\* exactly one "Error during write" message with the exception's text; the
\* exception does not leave write_with_response (write_in_chunks goes on to
\* its pacing delay, the caller stays where it is, the session does not
\* crash); a command of the interactive loop with a failed write goes on
\* only to the next prompt, and it does get there.
C14_WriteErrorIsReportedOnce ==
    /\ [][WriteFails =>
            /\ \E e \in Exceptions :
                   enqueued' = Append(enqueued, Msg("ErrorDuringWrite", e.text))
            /\ wpc' = "sleep"
            /\ UNCHANGED <<pc, openCmds, connected, subscribed>>]_vars
    /\ [](pc # "crashed")
    /\ [][(pc = "shell_wait" /\ pc' # pc) => pc' = "prompt"]_vars
    /\ ((pc = "shell_wait" /\ cmdFailed) ~> (pc = "prompt"))

\* C14 witness: a write of a command of the interactive loop has raised an
\* exception that is not a BleakError, and the loop is back at its prompt
C14_Witness ==
    /\ pc = "prompt"
    /\ connected
    /\ PRINT_QUEUE = <<Some(Msg("ErrorDuringWrite", <<73, 79>>)),
                       Some(Msg("Sent", <<>>))>>

----------------------------------------------------------------------------
(* "Sent: <command>" *)

\* a step that enqueues a message of the given kind
Enqueues(kind) ==
    /\ Len(enqueued') = Len(enqueued) + 1
    /\ SubSeq(enqueued', 1, Len(enqueued)) = enqueued
    /\ enqueued'[Len(enqueued')].kind = kind

\* C20: the interactive loop leaves a command only by enqueuing
\* "Sent: <command>" for it, once write_in_chunks has returned with every
\* chunk written and answered (acknowledged or failed); "Sent" is enqueued by
\* no other step; the prompt is enqueued only after it; and every command
\* entered does get its "Sent".
C20_SentOncePerCommand ==
    /\ [][(pc = "shell_wait" /\ pc' # pc) =>
            /\ pc' = "prompt"
            /\ enqueued' = Append(enqueued, Msg("Sent", command))
            /\ wpc = "idle"
            /\ inflight = None
            /\ openCmds = <<>>
            /\ Flatten(chunks) = data
            /\ prevOutcome \in {"ack", "fail"}]_vars
    /\ [][Enqueues("Sent") => (pc = "shell_wait" /\ pc' = "prompt")]_vars
    /\ [][Enqueues("Prompt") => (pc = "prompt" /\ pc' = "input")]_vars
    /\ [][(pc = "input" /\ pc' # pc) => pc' \in {"shell_wait", "stopping"}]_vars
    /\ ((pc = "shell_wait") ~> (pc = "prompt"))

\* C20 witness: the last write of the command "0100" failed and its "Sent"
\* follows the failure message
C20_Witness ==
    /\ pc = "prompt"
    /\ PRINT_QUEUE = <<Some(Msg("ErrorDuringWrite", <<78, 67>>)),
                       Some(Msg("Sent", <<48, 49, 48, 48>>))>>

----------------------------------------------------------------------------
(* The initialization sequence *)

InitPcs == {"init_loop", "init_wait"}

ShellPcs == {"prompt", "input", "shell_wait"}

\* C13: initialize_device is entered once, at the first command; each
\* command is announced and sent with a carriage return while no other
\* write_in_chunks call is open; the list moves on by exactly one command
\* when the call has returned with every chunk written, whether or not a
\* write failed; a failed write is logged and leaves the position in the
\* list alone; the interactive loop is entered only from the end of the
\* list and never left for the list again; and the list does get to its end.
C13_InitListInOrder ==
    /\ [](pc \in InitPcs => cmdIdx \in 1..(Len(commands) + 1))
    /\ [](pc = "init_wait" =>
            /\ cmdIdx <= Len(commands)
            /\ command = commands[cmdIdx]
            /\ data = encode(commands[cmdIdx] \o CR)
            /\ Len(openCmds) <= 1)
    /\ [][(pc' \in InitPcs /\ pc \notin InitPcs) =>
            (pc = "enabled" /\ pc' = "init_loop" /\ cmdIdx' = 1)]_vars
    /\ [][(pc = "init_loop" /\ pc' # pc) =>
            \/ /\ pc' = "init_wait"
               /\ cmdIdx' = cmdIdx
               /\ openCmds = <<>>
               /\ wpc = "idle"
               /\ enqueued' = Append(enqueued, Msg("SendingInit", commands[cmdIdx]))
            \/ /\ pc' = "prompt"
               /\ cmdIdx = Len(commands) + 1]_vars
    /\ [][(pc = "init_wait" /\ pc' # pc) =>
            /\ pc' = "init_loop"
            /\ cmdIdx' = cmdIdx + 1
            /\ wpc = "idle"
            /\ inflight = None
            /\ Flatten(chunks) = data]_vars
    /\ [][(pc = "init_wait" /\ WriteFails) =>
            (Enqueues("ErrorDuringWrite") /\ UNCHANGED <<pc, cmdIdx, command>>)]_vars
    /\ [][(pc \in ShellPcs) => (pc' \notin InitPcs)]_vars
    /\ ((pc \in InitPcs) ~> (pc = "prompt"))

\* C13 witness: the last write of the first command failed, and the second
\* command is announced and being sent
C13_Witness ==
    /\ pc = "init_wait"
    /\ cmdIdx = 2
    /\ PRINT_QUEUE = <<Some(Msg("ErrorDuringWrite", <<73, 79>>)),
                       Some(Msg("SendingInit", commands[2]))>>

----------------------------------------------------------------------------
(* The buffer when the connection closes *)

\* C12: the step that closes the connection (the client context is left,
\* after the interactive loop or on a BleakError) leaves the buffer idle, and
\* the buffer is idle for as long as there is no connection: no partial
\* message outlives the connection.
C12_IdleWhenClosed ==
    /\ [][(connected /\ ~connected') =>
            multi_frame_buffer' = MultiFrameBufferInit]_vars
    /\ [](~connected =>
            /\ multi_frame_buffer.buffer = <<>>
            /\ multi_frame_buffer.expected_length = None
            /\ multi_frame_buffer.current_length = 0)

\* C12 witness: notifications were handled, the last one a message, and the
\* connection has been closed by the teardown
C12_Witness ==
    /\ pc = "put_sentinel"
    /\ ~connected
    /\ lastNotif = Some(<<68, 69>>)
    /\ lastOut # None
    /\ PRINT_QUEUE = <<Some(Msg("NotificationsStopped", <<>>))>>

----------------------------------------------------------------------------
(* The inbound path while the outbound task is suspended *)

\* the outbound task is at one of its points of suspension: write_gatt_char,
\* asyncio.sleep, input()
OutboundSuspended == wpc \in {"await_write", "sleep"} \/ pc = "input"

\* C15: while the outbound task is suspended and notifications are
\* subscribed, every notification can be handled at once (a full queue is a
\* bound of the model, not of the program), and the step that handles it
\* updates the buffer and enqueues the completed message in that same step,
\* with the outbound task still where it was.
C15_InboundNotBlocked ==
    /\ []((OutboundSuspended /\ connected /\ subscribed) =>
            \A payload \in Notifications :
                (\/ Len(PRINT_QUEUE) < MaxBacklog
                 \/ notification_step(multi_frame_buffer, payload).out = None) =>
                ENABLED NotificationHandler(payload))
    /\ [][Inbound =>
            /\ lastNotif' # None
            /\ multi_frame_buffer' = notification_step(multi_frame_buffer, lastNotif'[1]).buf
            /\ lastOut' = notification_step(multi_frame_buffer, lastNotif'[1]).out
            /\ (lastOut' # None => enqueued' = Append(enqueued, lastOut'[1]))
            /\ UNCHANGED <<pc, wpc, inflight, i, data, chunks>>]_vars

\* C15 witness: a chunk is announced and its write is not yet answered, and
\* the message of a notification has been enqueued behind the announcement
C15_Witness ==
    /\ wpc = "await_write"
    /\ inflight # None
    /\ lastOut # None
    /\ PRINT_QUEUE = <<Some(Msg("WritingChunk", inflight[1])), Some(lastOut[1])>>

----------------------------------------------------------------------------
(* Who touches what *)

\* C16: every step that is not a run of notification_handler (the steps of
\* the outbound path, of the teardown and of output_handler) leaves buffer,
\* expected_length and current_length as they are; a run of
\* notification_handler neither starts nor ends a write nor moves
\* write_in_chunks; a write is put in flight only by write_in_chunks
\* announcing its next chunk.
C16_SeparatePaths ==
    /\ [][~Inbound =>
            /\ multi_frame_buffer'.buffer = multi_frame_buffer.buffer
            /\ multi_frame_buffer'.expected_length = multi_frame_buffer.expected_length
            /\ multi_frame_buffer'.current_length = multi_frame_buffer.current_length]_vars
    /\ [][Inbound =>
            /\ UNCHANGED <<inflight, chunks, wpc, data, i, openCmds, prevOutcome>>
            /\ ~Enqueues("WritingChunk")]_vars
    /\ [][(inflight' # inflight /\ inflight' # None) =>
            (WriteChunk /\ InWriteInChunks /\ ~Inbound)]_vars

\* C16 witness: a write has been acknowledged and a notification handled
\* during the pacing delay that follows; the buffer is idle
C16_Witness ==
    /\ wpc = "sleep"
    /\ prevOutcome = "ack"
    /\ lastNotif = Some(<<65, 66, 67>>)
    /\ multi_frame_buffer = MultiFrameBufferInit
    /\ PRINT_QUEUE = <<Some(Msg("WriteSuccessful", <<65>>)),
                       Some(Msg("CompleteResponse", <<65, 66, 67>>))>>

----------------------------------------------------------------------------
(* How the session ends *)

\* main is at or past PRINT_QUEUE.put(None)
EndPcs == {"put_sentinel", "await_output", "done"}

\* no device of the list has the target name
NoTarget == \A k \in 1..Len(devices) : devices[k] # DEVICE_NAME

\* C17: the device loop is left for the end of the session exactly when no
\* discovered device has the target name, by enqueuing "not found"; from
\* then on there is no connection, no subscription, no notification and no
\* write, and the output consumer does stop; a session that ends has ended
\* for one of three causes (not found, a BleakError of the connection, the
\* exit word) and keeps its cause; a failed write changes neither the place
\* of the main task nor the cause; the main task never crashes.
C17_NotFoundEndsWithoutConnecting ==
    /\ [][(pc = "scan_loop" /\ pc' # pc) =>
            \/ /\ pc' = "put_sentinel"
               /\ NoTarget
               /\ devIdx > Len(devices)
               /\ Enqueues("NotFound")
               /\ ending' = "not_found"
            \/ /\ pc' = "connecting"
               /\ devices[devIdx] = DEVICE_NAME
               /\ ending' = "none"]_vars
    /\ [](ending = "not_found" =>
            /\ pc \in EndPcs
            /\ ~connected
            /\ ~subscribed
            /\ mtu_size = 0
            /\ lastNotif = None
            /\ wpc = "idle"
            /\ inflight = None
            /\ chunks = <<>>
            /\ openCmds = <<>>)
    /\ ((ending = "not_found") ~> (out_pc = "stopped" /\ pc = "done"))
    /\ [](pc \in EndPcs \cup {"bleak_error"} => ending # "none")
    /\ [](pc # "crashed")
    /\ [][ending # "none" => ending' = ending]_vars
    /\ [][ending' = "connection_error" =>
            pc \in {"connect", "start_notify", "stop_notify", "bleak_error"} \cup EndPcs]_vars
    /\ [][WriteFails => UNCHANGED <<pc, ending, connected, subscribed>>]_vars

\* C17 witness: the discovered devices had other names, "not found" was
\* printed and the session is over
C17_Witness ==
    /\ ending = "not_found"
    /\ pc = "done"
    /\ out_pc = "stopped"
    /\ PRINT_QUEUE = <<>>

----------------------------------------------------------------------------
(* The exit keyword *)

\* the inputs that spell the exit keyword, in either case
ExitSpellings == {<<101, 120, 105, 116>>, <<69, 120, 105, 116>>}

\* the pcs of the teardown inside the client context
TeardownPcs == {"stopping", "stop_notify", "stopped", "disconnect"}

\* the sentinel is in the queue or has been read
SentinelPut == out_pc = "stopped" \/ \E k \in 1..Len(PRINT_QUEUE) : PRINT_QUEUE[k] = None

\* C18: an input that spells the exit keyword in either case is never sent
\* as a command and is always taken as the exit; the step that takes it
\* enqueues "Exiting", writes nothing and leaves the loop; from then on no
\* write_in_chunks call is open and no chunk is in flight; the teardown goes
\* in order (unsubscribed while still connected, then the connection closed,
\* the sentinel put only after the connection is closed); and the session
\* does come to its end.
C18_ExitThenTeardownInOrder ==
    /\ [][(pc = "input" /\ pc' = "shell_wait") => command' \notin ExitSpellings]_vars
    /\ [](pc = "input" /\ Len(PRINT_QUEUE) < MaxBacklog =>
            \A line \in ExitSpellings :
                ENABLED InputExit(line) /\ ~ENABLED InputCommand(line))
    /\ [][(pc = "input" /\ pc' # pc /\ pc' # "shell_wait") =>
            /\ pc' = "stopping"
            /\ ending' = "exit"
            /\ Enqueues("Exiting")
            /\ wpc = "idle"
            /\ UNCHANGED <<wpc, inflight, chunks, openCmds, data, connected, subscribed>>]_vars
    /\ [](ending = "exit" =>
            /\ pc \in TeardownPcs \cup {"bleak_error"} \cup EndPcs
            /\ wpc = "idle"
            /\ inflight = None
            /\ chunks = <<>>
            /\ openCmds = <<>>
            /\ (pc \in {"stopping", "stop_notify"} => connected /\ subscribed)
            /\ (pc \in {"stopped", "disconnect"} => connected /\ ~subscribed)
            /\ (pc \in {"bleak_error"} \cup EndPcs => ~connected /\ ~subscribed)
            /\ (SentinelPut => pc \in {"await_output", "done"}))
    /\ [][(ending = "exit" /\ pc' # pc) =>
            \/ pc = "stopping" /\ pc' = "stop_notify"
            \/ pc = "stop_notify" /\ pc' \in {"stopped", "bleak_error"}
            \/ pc = "stopped" /\ pc' = "disconnect"
            \/ pc \in {"disconnect", "bleak_error"} /\ pc' = "put_sentinel"
            \/ pc = "put_sentinel" /\ pc' = "await_output"
            \/ pc = "await_output" /\ pc' = "done"]_vars
    /\ ((ending = "exit") ~> (pc = "done"))

\* C18 witness: "Exit" was typed, the teardown went through stop_notify and
\* disconnect, and the session is over
C18_Witness ==
    /\ ending = "exit"
    /\ pc = "await_output"
    /\ ~connected
    /\ PRINT_QUEUE = <<Some(Msg("NotificationsStopped", <<>>)), None>>

----------------------------------------------------------------------------
(* The end of output_handler *)

\* the positions of the queue that hold the sentinel
SentinelAt == {k \in 1..Len(PRINT_QUEUE) : PRINT_QUEUE[k] = None}

====
